---- MODULE Spec2Model ----
(***************************************************************************)
(* Credential cache of auth0-spa-js (src/src/cache.ts): CacheKey,          *)
(* CacheManager, findExistingCacheKey, LocalStorageCache and InMemoryCache. *)
(*                                                                         *)
(* A JavaScript string is modelled as a sequence of one-character strings, *)
(* so that toKey / fromKey / split are computed character by character.    *)
(***************************************************************************)
EXTENDS Integers, Sequences, FiniteSets, TLC

VARIABLES
    backend,    \* "localStorage" | "memory": the ICache the manager was built over
    storage,    \* the backend's records in key-enumeration order: Seq([key, value])
    heap,       \* InMemoryCache only: object identity -> WrappedCacheEntry
    clockMs,    \* Date.now()
    call,       \* the last CacheManager.get: the key it was called with, what it returned
    scenario,   \* which triples (client_id, audience, scope) the callers of this run use
    roundTrip,  \* a CacheKey, its toKey text and the fromKey of that text (key runs)
    request,    \* the options oauthToken was called with and the request it built
    inflight,   \* the gets of the interleaved runs: where each stands, what it read
    twin        \* a second manager, over LocalStorageCache, given the same calls

vars == <<backend, scenario, storage, heap, clockMs, call, roundTrip, request, inflight,
          twin>>

----------------------------------------------------------------------------
(* Bounds of the model *)

\* the clock runs from 0 to MaxSeconds seconds
MaxSeconds == 4
\* the clock advances in steps of TickMs milliseconds
TickMs == 1000
\* CacheManager.set creates a new key only while fewer than MaxKeys keys are stored
MaxKeys == 2
\* longest component string of the key round-trip runs
MaxLen == 2
\* CacheManager.get calls of one interleaved run
MaxGets == 2

----------------------------------------------------------------------------
(* JavaScript values *)

\* the value `undefined` (no one-character string sequence equals it)
undefined == <<"undefined">>
\* the value `null`
null == <<"null">>

\* what a template literal prints for a string-or-undefined component
ToStr(x) == IF x = undefined THEN <<"u","n","d","e","f","i","n","e","d">> ELSE x

\* `!!s` for a string-or-undefined value
Truthy(s) == s # undefined /\ s # null /\ s # <<>>

\* String.prototype.startsWith
StartsWith(s, d) == Len(s) >= Len(d) /\ SubSeq(s, 1, Len(d)) = d

\* whether the separator d occurs in s at index i
occursAt(s, d, i) ==
    /\ i + Len(d) - 1 <= Len(s)
    /\ \A j \in 1..Len(d) : s[i + j - 1] = d[j]

\* the parts of s from index `start` on, scanning for the separator from index i
RECURSIVE SplitFrom(_, _, _, _)
SplitFrom(s, d, start, i) ==
    IF i + Len(d) - 1 > Len(s) THEN <<SubSeq(s, start, Len(s))>>
    ELSE IF occursAt(s, d, i)
         THEN <<SubSeq(s, start, i - 1)>> \o SplitFrom(s, d, i + Len(d), i + Len(d))
         ELSE SplitFrom(s, d, start, i + 1)

\* String.prototype.split(d) for a non-empty separator d
split(s, d) == SplitFrom(s, d, 1, 1)

\* Array.prototype.includes
includes(arr, x) == \E i \in 1..Len(arr) : arr[i] = x

----------------------------------------------------------------------------
(* CacheKey *)

keyPrefix == <<"@","@","a","u","t","h","0","s","p","a","j","s","@","@">>
DEFAULT_EXPIRY_ADJUSTMENT_SECONDS == 0

Delim == <<":", ":">>
Space == <<" ">>

\* new CacheKey(data, prefix = keyPrefix): the default applies to an undefined prefix
CacheKey(data, prefix) ==
    [prefix    |-> IF prefix = undefined THEN keyPrefix ELSE prefix,
     client_id |-> data.client_id,
     audience  |-> data.audience,
     scope     |-> data.scope]

toKey(k) ==
    ToStr(k.prefix) \o Delim \o ToStr(k.client_id) \o Delim
        \o ToStr(k.audience) \o Delim \o ToStr(k.scope)

\* fromKey with audience and scope taken in the wrong order
fromKeyScopeFirst(key) ==
    LET parts == split(key, Delim)
        At(i) == IF i <= Len(parts) THEN parts[i] ELSE undefined
    IN  CacheKey([client_id |-> At(2), scope |-> At(3), audience |-> At(4)], At(1))

\* destructuring [prefix, client_id, audience, scope] = key.split('::')
fromKey(key) ==
    LET parts == split(key, Delim)
        At(i) == IF i <= Len(parts) THEN parts[i] ELSE undefined
    IN  CacheKey([client_id |-> At(2), scope |-> At(4), audience |-> At(3)], At(1))

----------------------------------------------------------------------------
(* CacheEntry, WrappedCacheEntry and their JSON text *)

\* body.refresh_token, undefined when the property is missing
refreshTokenOf(body) ==
    IF "refresh_token" \in DOMAIN body THEN body.refresh_token ELSE undefined

\* JSON.stringify drops the properties whose value is undefined (of a CacheEntry,
\* only the optional refresh_token can be)
DropUndefined(body) ==
    LET kept == {f \in DOMAIN body : ~(f = "refresh_token" /\ body[f] = undefined)}
    IN  [f \in kept |-> body[f]]

\* JSON.stringify(wrappedEntry): the text localStorage holds
JSONstringify(wrappedEntry) ==
    [parsable |-> TRUE,
     value    |-> [body |-> DropUndefined(wrappedEntry.body),
                   expiresAt |-> wrappedEntry.expiresAt]]

\* a text that is not JSON: JSON.parse throws on it
unparsableText(chars) == [parsable |-> FALSE, value |-> chars]

\* `!json` for a stored text: only the empty string is falsy
isEmptyText(json) == ~json.parsable /\ json.value = <<>>

\* whether JSON.parse(json) returns (it throws a SyntaxError otherwise)
JSONparses(json) == json.parsable

\* JSON.parse(json) of a text that parses: a fresh copy of the value
JSONparse(json) == json.value

\* the clock read in milliseconds: the division by 1000 forgotten
nowSecondsOfMillis(ms) == ms

\* Math.floor(Date.now() / 1000)
nowSecondsOf(ms) == ms \div 1000

\* wrapCacheEntry that trusts expires_in alone, without Math.min
wrapCacheEntryExpiresInOnly(entry, ms) ==
    [body |-> entry, expiresAt |-> ms \div 1000 + entry.expires_in]

\* CacheManager.wrapCacheEntry(entry) at Date.now() = ms
wrapCacheEntry(entry, ms) ==
    LET expiresInTime == nowSecondsOf(ms) + entry.expires_in
        claimsExp     == entry.decodedToken.claims.exp
        expirySeconds == IF expiresInTime < claimsExp THEN expiresInTime ELSE claimsExp
    IN  [body |-> entry, expiresAt |-> expirySeconds]

\* the expiry test with <= in place of <
isExpiredAtDeadline(wrappedEntry, expiryAdjustmentSeconds, nowSeconds) ==
    wrappedEntry.expiresAt - expiryAdjustmentSeconds <= nowSeconds

\* the expiry test one second late
isExpiredLate(wrappedEntry, expiryAdjustmentSeconds, nowSeconds) ==
    wrappedEntry.expiresAt - expiryAdjustmentSeconds < nowSeconds - 1

\* the test of CacheManager.get: wrappedEntry.expiresAt - expiryAdjustmentSeconds < nowSeconds
isExpired(wrappedEntry, expiryAdjustmentSeconds, nowSeconds) ==
    wrappedEntry.expiresAt - expiryAdjustmentSeconds < nowSeconds

\* the body CacheManager.get leaves of an expired entry that has a refresh_token
remnantOf(body) == [refresh_token |-> body.refresh_token]

----------------------------------------------------------------------------
(* Inputs *)

c1 == <<"c", "1">>
c2 == <<"c", "2">>
audA == <<"A">>
audB == <<"B">>
audAa == <<"A", ":", ":", "a">>
scopeEmpty == <<>>
scopeA == <<"a">>
scopeB == <<"b">>
scopeAB == <<"a", " ", "b">>
scopeBA == <<"b", " ", "a">>
scopeABC == <<"a", " ", "b", " ", "c">>

KD(c, a, s) == [client_id |-> c, audience |-> a, scope |-> s]

\* the triples of the first client and audience, and those of another client or
\* audience
OwnKeyData == {KD(c1, audA, scopeEmpty), KD(c1, audA, scopeA), KD(c1, audA, scopeAB)}
OtherKeyData == {KD(c2, audA, scopeAB), KD(c1, audB, scopeAB), KD(c1, audAa, scopeB)}

\* The callers of one run use one of five families of triples
\* (client_id, audience, scope): overlapping scopes of one client and audience;
\* one scope for several clients and audiences; the empty scope; one scope in a
\* localStorage that other code of the origin has written to; an audience that
\* contains the '::' of the key format.
Scenarios == {"scopes", "tenants", "emptyScope", "shared", "delimiter"}

\* the triples entries are stored for
SetKeyData(sc) ==
    IF sc = "scopes" THEN {KD(c1, audA, scopeA), KD(c1, audA, scopeAB)}
    ELSE IF sc = "tenants"
    THEN {KD(c1, audA, scopeAB), KD(c2, audA, scopeAB), KD(c1, audB, scopeAB)}
    ELSE IF sc = "emptyScope" THEN {KD(c1, audA, scopeEmpty), KD(c1, audA, scopeA)}
    ELSE IF sc = "delimiter" THEN {KD(c1, audAa, scopeB)}
    ELSE IF sc = "corrupt" THEN {KD(c1, audA, scopeA)}
    ELSE {KD(c1, audA, scopeAB)}

\* the triples looked up
GetKeyData(sc) ==
    SetKeyData(sc) \cup
        (IF sc = "scopes" THEN {KD(c1, audA, scopeBA), KD(c1, audA, scopeABC)}
         ELSE IF sc = "emptyScope" THEN {}
         ELSE IF sc = "corrupt" THEN {KD(c1, audA, scopeAB)}
         ELSE {KD(c1, audA, scopeA)})

AllKeyData == UNION {GetKeyData(sc) : sc \in Scenarios}

ExpiresIn == {1}
ClaimsExp == {2}
Adjustments == {DEFAULT_EXPIRY_ADJUSTMENT_SECONDS, 1, 2}

\* the refresh token issued with the grant for kd
refreshTokenFor(kd) ==
    <<"r", "t", "-">> \o kd.client_id \o <<"-">> \o kd.audience \o <<"-">> \o kd.scope

\* a CacheEntry as the token exchange hands it to CacheManager.set
Entry(kd, expires_in, exp, withRefreshToken) ==
    IF withRefreshToken
    THEN [client_id |-> kd.client_id, audience |-> kd.audience, scope |-> kd.scope,
          id_token |-> <<"i", "d">>, access_token |-> <<"a", "t">>,
          expires_in |-> expires_in,
          decodedToken |-> [claims |-> [exp |-> exp]],
          refresh_token |-> refreshTokenFor(kd)]
    ELSE [client_id |-> kd.client_id, audience |-> kd.audience, scope |-> kd.scope,
          id_token |-> <<"i", "d">>, access_token |-> <<"a", "t">>,
          expires_in |-> expires_in,
          decodedToken |-> [claims |-> [exp |-> exp]]]

Entries(sc) ==
    {Entry(kd, ein, exp, rt) :
        kd \in SetKeyData(sc) \cap OwnKeyData,
        ein \in ExpiresIn, exp \in ClaimsExp, rt \in BOOLEAN}
    \cup {Entry(kd, ein, exp, TRUE) :
            kd \in SetKeyData(sc) \cap OtherKeyData, ein \in ExpiresIn, exp \in ClaimsExp}

\* records of other code sharing the origin's localStorage: they look like entries
\* of the first client and audience, with tokens of their own
foreignBody ==
    [Entry(KD(c1, audA, scopeAB), 3, 2, TRUE) EXCEPT
        !.access_token = <<"x">>, !.refresh_token = <<"x">>]
foreignExtended ==
    [key   |-> keyPrefix \o <<"x">> \o Delim \o c1 \o Delim \o audA \o Delim \o scopeAB,
     value |-> JSONstringify([body |-> foreignBody, expiresAt |-> 2])]
foreignOther ==
    [key   |-> <<"o">> \o Delim \o c1 \o Delim \o audA \o Delim \o scopeAB,
     value |-> JSONstringify([body |-> foreignBody, expiresAt |-> 2])]

\* a record under a key of this cache whose text was damaged: cut short, or emptied
corruptRecords ==
    {[key   |-> keyPrefix \o Delim \o c1 \o Delim \o audA \o Delim \o scopeAB,
      value |-> unparsableText(chars)] : chars \in {<<"{">>, <<>>}}

\* what localStorage holds when the manager is built
InitialLocalStorage(sc) ==
    IF sc = "shared" THEN {<<foreignExtended, foreignOther>>}
    ELSE IF sc = "corrupt" THEN {<<r>> : r \in corruptRecords}
    ELSE {<<>>}

\* every key text the runs produce, parsed once: parseKey(key) is fromKey(key)
KnownKeys ==
    {toKey(CacheKey(kd, undefined)) : kd \in AllKeyData}
        \cup {foreignExtended.key, foreignOther.key}

parsedKeys == [key \in KnownKeys |-> fromKey(key)]

\* CacheKey.fromKey(key)
parseKey(key) == IF key \in KnownKeys THEN parsedKeys[key] ELSE fromKey(key)

----------------------------------------------------------------------------
(* findExistingCacheKey *)

hasAllScopes(currentScopes, scope) ==
    /\ Truthy(currentScopes)
    /\ LET currentScopesArr == split(currentScopes, Space)
           wanted == split(scope, Space)
       IN  \A i \in 1..Len(wanted) : includes(currentScopesArr, wanted[i])

\* the filter of findExistingCacheKey without its client_id comparison
matchesCacheKeyAnyClient(cacheKey, key) ==
    LET current == parseKey(key)
    IN  /\ current.prefix = keyPrefix
        /\ current.audience = cacheKey.audience
        /\ hasAllScopes(current.scope, cacheKey.scope)

\* the callback of existingCacheKeys.filter
matchesCacheKey(cacheKey, key) ==
    LET current == parseKey(key)
    IN  /\ current.prefix = keyPrefix
        /\ current.client_id = cacheKey.client_id
        /\ current.audience = cacheKey.audience
        /\ hasAllScopes(current.scope, cacheKey.scope)

\* existingCacheKeys.filter(...)[0]
findExistingCacheKey(cacheKey, existingCacheKeys) ==
    LET hits == SelectSeq(existingCacheKeys, LAMBDA key : matchesCacheKey(cacheKey, key))
    IN  IF hits = <<>> THEN undefined ELSE hits[1]

----------------------------------------------------------------------------
(* The backend's records *)

keysOf(st) == [i \in 1..Len(st) |-> st[i].key]

hasKey(st, key) == \E i \in 1..Len(st) : st[i].key = key

\* the value stored under a key that is present
valueOf(st, key) == st[CHOOSE i \in 1..Len(st) : st[i].key = key].value

\* removeItem(key) / delete cache[key]: the other records keep their order
removeKey(st, key) == SelectSeq(st, LAMBDA r : r.key # key)

\* where a record for `key` may go: an existing key keeps its place (0); a new key
\* of the in-process object comes last (insertion order of Object.keys); the
\* enumeration order of localStorage is defined by the user agent (here: a new
\* key comes first or last, so that any two keys enumerate in either order)
insertPositions(be, st, key) ==
    IF hasKey(st, key) THEN {0}
    ELSE IF be = "memory" THEN {Len(st) + 1}
    ELSE {1, Len(st) + 1}

\* a store in which writing an existing key moves it to the end of the enumeration
putKeyMoving(st, key, value, pos) ==
    IF hasKey(st, key)
    THEN SelectSeq(st, LAMBDA r : r.key # key) \o <<[key |-> key, value |-> value]>>
    ELSE SubSeq(st, 1, pos - 1) \o <<[key |-> key, value |-> value]>>
            \o SubSeq(st, pos, Len(st))

\* setItem(key, value) / cache[key] = value, a new key entering at position pos
putKey(st, key, value, pos) ==
    IF hasKey(st, key)
    THEN [i \in 1..Len(st) |->
            IF st[i].key = key THEN [key |-> key, value |-> value] ELSE st[i]]
    ELSE SubSeq(st, 1, pos - 1) \o <<[key |-> key, value |-> value]>>
            \o SubSeq(st, pos, Len(st))

\* LocalStorageCache.clear: every key that startsWith(keyPrefix) is removed
localStorageClear(st) == SelectSeq(st, LAMBDA r : ~StartsWith(r.key, keyPrefix))

\* InMemoryCache clear: cache = {}
inMemoryClear(st) == <<>>

\* the gets of an interleaved run, and the record of one that was not called
Gets == 1..MaxGets
NoFlights == [g \in Gets |-> [pc |-> "idle"]]

\* Object identities of the in-process cache are kept up to renaming: the objects
\* the records refer to are numbered in the order the enumeration meets them, and
\* unreferenced objects are garbage. While a get is between its read and its
\* return it holds the object it read, and no object is renamed or collected.
Quiescent == \A g \in Gets : inflight[g].pc # "awaiting"

refsIn(st) == {st[i].value : i \in 1..Len(st)}

firstAt(st, r) == CHOOSE i \in 1..Len(st) : st[i].value = r /\ \A j \in 1..(i - 1) : st[j].value # r

renamed(st, r) == Cardinality({r2 \in refsIn(st) : firstAt(st, r2) <= firstAt(st, r)})

normalStorage(be, st) ==
    IF be = "memory" /\ Quiescent
    THEN [i \in 1..Len(st) |-> [key |-> st[i].key, value |-> renamed(st, st[i].value)]]
    ELSE st

normalHeap(be, st, h) ==
    IF be = "memory" /\ Quiescent
    THEN [n \in 1..Cardinality(refsIn(st)) |->
            h[CHOOSE r \in refsIn(st) : renamed(st, r) = n]]
    ELSE h

\* a new object identity
freshRef(h) == CHOOSE r \in 1..(Cardinality(DOMAIN h) + 1) : r \notin DOMAIN h

----------------------------------------------------------------------------
(* The two ICache implementations *)

\* a readJson that swallows the SyntaxError of JSON.parse and reports no entry
backendGetSwallowing(be, st, key) ==
    LET cacheKey == parseKey(key)
        existingCacheKey == findExistingCacheKey(cacheKey, keysOf(st))
    IN  IF existingCacheKey = undefined
        THEN [threw |-> FALSE, existingCacheKey |-> undefined, payload |-> <<>>]
        ELSE IF be = "memory"
        THEN [threw |-> FALSE, existingCacheKey |-> existingCacheKey,
              payload |-> <<valueOf(st, existingCacheKey)>>]
        ELSE LET json == valueOf(st, existingCacheKey)
             IN  IF JSONparses(json)
                 THEN [threw |-> FALSE, existingCacheKey |-> existingCacheKey,
                       payload |-> <<JSONparse(json)>>]
                 ELSE [threw |-> FALSE, existingCacheKey |-> existingCacheKey,
                       payload |-> <<>>]

\* LocalStorageCache.get / readJson and InMemoryCache enclosedCache.get:
\* threw = JSON.parse failed; payload = <<>> for null, <<v>> for the value resolved
\* (the parsed copy of localStorage, the stored object itself of the in-process cache)
backendGet(be, st, key) ==
    LET cacheKey == parseKey(key)
        existingCacheKey == findExistingCacheKey(cacheKey, keysOf(st))
    IN  IF existingCacheKey = undefined
        THEN [threw |-> FALSE, existingCacheKey |-> undefined, payload |-> <<>>]
        ELSE IF be = "memory"
        THEN [threw |-> FALSE, existingCacheKey |-> existingCacheKey,
              payload |-> <<valueOf(st, existingCacheKey)>>]
        ELSE LET json == valueOf(st, existingCacheKey)
             IN  IF isEmptyText(json)
                 THEN [threw |-> FALSE, existingCacheKey |-> existingCacheKey,
                       payload |-> <<>>]
                 ELSE IF JSONparses(json)
                 THEN [threw |-> FALSE, existingCacheKey |-> existingCacheKey,
                       payload |-> <<JSONparse(json)>>]
                 ELSE [threw |-> TRUE, existingCacheKey |-> existingCacheKey,
                       payload |-> <<>>]

\* what `wrappedEntry` of CacheManager.get denotes
deref(be, h, w) == IF be = "memory" THEN h[w] ELSE w

\* the value a backend keeps for a wrapped entry: its JSON text, or the object
stored(be, ref, wrappedEntry) ==
    IF be = "memory" THEN ref ELSE JSONstringify(wrappedEntry)

\* the wrapped entry a stored value stands for (a localStorage text that parses)
wrappedOf(be, h, v) == IF be = "memory" THEN h[v] ELSE JSONparse(v)

\* CacheManager.get from the await of the backend's get to its return, at
\* Date.now() = ms: the records, the objects and the value returned (<<>> for
\* undefined); payload is what the backend's get resolved, pos the place a new
\* key takes in the enumeration
managerGetResume(be, st, h, key, expiryAdjustmentSeconds, payload, ms, pos) ==
    LET nowSeconds == nowSecondsOf(ms)
    IN  IF payload = <<>>
        THEN [storage |-> st, heap |-> h, result |-> <<>>]
        ELSE LET w == payload[1]
                 wrappedEntry == deref(be, h, w)
                 truncated == [body |-> remnantOf(wrappedEntry.body),
                               expiresAt |-> wrappedEntry.expiresAt]
             IN  IF isExpired(wrappedEntry, expiryAdjustmentSeconds, nowSeconds)
                 THEN IF Truthy(refreshTokenOf(wrappedEntry.body))
                      THEN [storage |-> putKey(st, key, stored(be, w, truncated), pos),
                            heap |-> IF be = "memory" THEN [h EXCEPT ![w] = truncated]
                                     ELSE h,
                            result |-> <<truncated.body>>]
                      ELSE [storage |-> removeKey(st, key), heap |-> h, result |-> <<>>]
                 ELSE [storage |-> st, heap |-> h, result |-> <<wrappedEntry.body>>]

\* the keys of this cache among the stored ones
cacheKeysOf(st) == SelectSeq(keysOf(st), LAMBDA k : parseKey(k).prefix = keyPrefix)

\* the record of a manager no get was called on yet
\* the second manager when it is not run: an empty localStorage, no get so far
NoTwin == [storage |-> <<>>, result |-> <<>>]

NoCall ==
    [pc |-> "idle", cacheKey |-> CacheKey(KD(c1, audA, scopeA), undefined),
     result |-> <<>>]

\* the record of a run that builds no key on its own
NoRoundTrip ==
    [phase |-> "off", cacheKey |-> CacheKey(KD(<<>>, <<>>, <<>>), <<>>), key |-> <<>>,
     parsed |-> CacheKey(KD(<<>>, <<>>, <<>>), <<>>)]

\* the record of a run that builds no token request
NoRequest == [phase |-> "off"]

----------------------------------------------------------------------------
(* CacheManager, its calls made one after the other *)

Init ==
    /\ backend \in {"localStorage", "memory"}
    /\ scenario \in Scenarios
    /\ scenario = "shared" => backend = "localStorage"
    /\ storage \in (IF backend = "memory" THEN {<<>>} ELSE InitialLocalStorage(scenario))
    /\ heap = <<>>
    /\ clockMs = TickMs \div 2
    /\ call = NoCall
    /\ roundTrip = NoRoundTrip
    /\ request = NoRequest
    /\ inflight = NoFlights
    /\ twin = NoTwin

\* time passes
Tick ==
    /\ clockMs + TickMs <= MaxSeconds * 1000
    /\ clockMs' = clockMs + TickMs
    /\ UNCHANGED <<backend, scenario, storage, heap, call, roundTrip, request, inflight>>

\* CacheManager.set(entry)
Set(entry) ==
    \E key \in {toKey(CacheKey([client_id |-> entry.client_id, scope |-> entry.scope,
                                audience |-> entry.audience], undefined))},
       wrappedEntry \in {wrapCacheEntry(entry, clockMs)},
       ref \in {freshRef(heap)} :
        /\ hasKey(storage, key) \/ Len(cacheKeysOf(storage)) < MaxKeys
        /\ \E pos \in insertPositions(backend, storage, key) :
           \E st \in {putKey(storage, key, stored(backend, ref, wrappedEntry), pos)} :
              /\ storage' = normalStorage(backend, st)
              /\ heap' = normalHeap(backend, st,
                            IF backend = "memory" THEN heap @@ (ref :> wrappedEntry)
                            ELSE heap)
        /\ UNCHANGED <<backend, scenario, clockMs, call, roundTrip, request, inflight>>

\* CacheManager.clear()
Clear ==
    /\ \E st \in {IF backend = "memory" THEN inMemoryClear(storage)
                  ELSE localStorageClear(storage)} :
          /\ storage' = normalStorage(backend, st)
          /\ heap' = normalHeap(backend, st, heap)
    /\ UNCHANGED <<backend, scenario, clockMs, call, roundTrip, request, inflight>>

\* CacheManager.get(cacheKey, expiryAdjustmentSeconds) from the point where the
\* backend's get has settled with `got`
GetResume(cacheKey, key, got, expiryAdjustmentSeconds) ==
    /\ IF got.threw
       THEN /\ call' = [pc |-> "failed", cacheKey |-> cacheKey, result |-> <<>>]
            /\ UNCHANGED <<storage, heap>>
       ELSE \E pos \in insertPositions(backend, storage, key) :
            \E out \in {managerGetResume(backend, storage, heap, key,
                            expiryAdjustmentSeconds, got.payload, clockMs, pos)} :
                /\ storage' = normalStorage(backend, out.storage)
                /\ heap' = normalHeap(backend, out.storage, out.heap)
                /\ call' = [pc |-> "done", cacheKey |-> cacheKey,
                            result |-> out.result]
    /\ UNCHANGED <<backend, scenario, clockMs, roundTrip, request, inflight>>

\* await CacheManager.get(cacheKey, expiryAdjustmentSeconds)
Get(cacheKey, expiryAdjustmentSeconds) ==
    \E key \in {toKey(cacheKey)} :
    \E got \in {backendGet(backend, storage, key)} :
        GetResume(cacheKey, key, got, expiryAdjustmentSeconds)

Next ==
    \/ Tick /\ UNCHANGED twin
    \/ \E entry \in Entries(scenario) : Set(entry) /\ UNCHANGED twin
    \/ Clear /\ UNCHANGED twin
    \/ \E kd \in GetKeyData(scenario), adj \in Adjustments :
          Get(CacheKey(kd, undefined), adj) /\ UNCHANGED twin

Spec == Init /\ [][Next]_vars

----------------------------------------------------------------------------
(* The notions the properties are stated in *)

\* the tokens of a space-delimited scope string
ScopeTokens(scope) == {split(scope, Space)[i] : i \in 1..Len(split(scope, Space))}

\* the scope strings looked up
QueryScopes == {scopeEmpty, scopeA, scopeAB, scopeBA, scopeABC}

\* the text of the key of this cache for a triple
keyTextOf(kd) == toKey(CacheKey(kd, undefined))

\* the prefix component of a key text: what stands before the first '::'
prefixComponent(key) == split(key, Delim)[1]

\* the wrapped entry stored under a key that is present
entryAt(be, st, h, key) == wrappedOf(be, h, valueOf(st, key))

\* what the backend's get finds for a triple in the current state
lookup(kd) == backendGet(backend, storage, keyTextOf(kd))

\* the step is `await get(CacheKey(kd), adj)` (the record of the last get is
\* compared first: it tells most other steps apart at once)
IsGet(kd, adj) ==
    /\ call'.pc # "idle"
    /\ call'.cacheKey.scope = kd.scope
    /\ call'.cacheKey.client_id = kd.client_id
    /\ call'.cacheKey.audience = kd.audience
    /\ clockMs' = clockMs
    /\ Get(CacheKey(kd, undefined), adj)

\* the last get recorded after the step is one for the triple kd
CalledFor(kd) ==
    /\ call'.pc # "idle"
    /\ call'.cacheKey.scope = kd.scope
    /\ call'.cacheKey.client_id = kd.client_id
    /\ call'.cacheKey.audience = kd.audience
    /\ clockMs' = clockMs

\* the step is `await get(CacheKey(kd), adj)`, `got` being what the backend's get
\* finds for kd
IsGetWith(kd, got, adj) ==
    GetResume(CacheKey(kd, undefined), keyTextOf(kd), got, adj)

\* the wrapped entry a lookup result holds (it holds one)
held(got) == deref(backend, heap, got.payload[1])

\* the step is `set(e)`
IsSet(e) ==
    /\ call' = call
    /\ clockMs' = clockMs
    /\ Set(e)

\* the step is a get of this run
IsSomeGet == \E kd \in GetKeyData(scenario), adj \in Adjustments : IsGet(kd, adj)

\* the keys stored before or after the step
KeysAround == {storage[i].key : i \in 1..Len(storage)}
                  \cup {storage'[i].key : i \in 1..Len(storage')}

\* whether string s contains the separator d
contains(s, d) == \E i \in 1..Len(s) : occursAt(s, d, i)

\* whether string s ends with the character ch
endsWithChar(s, ch) == Len(s) > 0 /\ s[Len(s)] = ch

\* the components split('::') cannot tear: none contains '::', and none of the
\* three that a '::' follows ends with ':'
Separable(k) ==
    /\ \A f \in {"prefix", "client_id", "audience", "scope"} : ~contains(k[f], Delim)
    /\ \A f \in {"prefix", "client_id", "audience"} : ~endsWithChar(k[f], ":")

\* every triple the callers of this run pass to set and get is separable
SeparableRun == \A kd \in GetKeyData(scenario) : Separable(CacheKey(kd, undefined))

\* a body is one CacheManager.set was given for the triple kd
IsEntryOf(body, kd) ==
    \E ein \in ExpiresIn, exp \in ClaimsExp, rt \in BOOLEAN : body = Entry(kd, ein, exp, rt)

\* a body is the refresh-token remnant of an entry set for the triple kd
IsRemnantOf(body, kd) == body = [refresh_token |-> refreshTokenFor(kd)]

----------------------------------------------------------------------------
(* C1 *)

\* the record under the key of kd is the one set stored there, and the store holds
\* no other record of this cache for kd's client_id and audience
OnlyEntryFor(kd) ==
    /\ hasKey(storage, keyTextOf(kd))
    /\ IsEntryOf(entryAt(backend, storage, heap, keyTextOf(kd)).body, kd)
    /\ \A i \in 1..Len(storage) :
          LET other == fromKey(storage[i].key)
          IN  (/\ other.prefix = keyPrefix
               /\ other.client_id = kd.client_id
               /\ other.audience = kd.audience) => storage[i].key = keyTextOf(kd)

\* C1: with one entry stored by set under scope S for (client_id, audience), the
\* backend's get for that client_id and audience finds the entry for every query
\* scope whose tokens are all in S, and finds nothing for a query scope with a
\* token that is not in S
C1_ScopeSupersetLookup ==
    \A kd \in SetKeyData(scenario) :
        OnlyEntryFor(kd) =>
            \A q \in QueryScopes :
                LET got == lookup(KD(kd.client_id, kd.audience, q))
                IN  IF ScopeTokens(q) \subseteq ScopeTokens(kd.scope)
                    THEN got.existingCacheKey = keyTextOf(kd) /\ got.payload # <<>>
                    ELSE got.existingCacheKey = undefined /\ got.payload = <<>>

----------------------------------------------------------------------------
(* C2 *)

\* the body the last get returned comes from a set for exactly the client_id and
\* audience asked for and a scope holding every token of the scope asked for
ReturnedFromMatchingSet ==
    \E kd \in SetKeyData(scenario) :
        /\ kd.client_id = call.cacheKey.client_id
        /\ kd.audience = call.cacheKey.audience
        /\ ScopeTokens(call.cacheKey.scope) \subseteq ScopeTokens(kd.scope)
        /\ IsEntryOf(call.result[1], kd) \/ IsRemnantOf(call.result[1], kd)

\* C2 as stated: after any sequence of set/get/clear calls, every body a get
\* returns for (client_id, audience, scope q), full entry or refresh-token remnant,
\* comes from a set for exactly that client_id and audience and a scope holding
\* every token of q
C2_Isolation ==
    (call.pc = "done" /\ call.result # <<>>) => ReturnedFromMatchingSet

\* C2 amended: when no client_id, audience or scope passed to set or get contains
\* '::' and no client_id or audience ends with ':', every body a get returns for
\* (client_id, audience, scope q), full entry or refresh-token remnant, comes from
\* a set for exactly that client_id and audience and a scope holding every token
\* of q; records under another prefix are never returned
C2_IsolationSeparable ==
    (call.pc = "done" /\ call.result # <<>> /\ SeparableRun) => ReturnedFromMatchingSet

\* a get for the first client returned a body while an entry of the second client
\* was stored
C2_Witness ==
    /\ call.pc = "done"
    /\ call.result # <<>>
    /\ call.cacheKey.client_id = c1
    /\ call.cacheKey.scope = scopeA
    /\ hasKey(storage, keyTextOf(KD(c2, audA, scopeAB)))
    /\ hasKey(storage, keyTextOf(KD(c1, audA, scopeAB)))

----------------------------------------------------------------------------
(* C3 *)

\* what a get returns of an expired entry: the remnant when the body carries a
\* refresh_token, nothing otherwise
ExpiredResult(body) ==
    IF Truthy(refreshTokenOf(body)) THEN <<[refresh_token |-> body.refresh_token]>>
    ELSE <<>>

\* C3 as stated: a get with adjustment 0 at a clock nowSeconds >= expiresAt returns
\* only {refresh_token} when the stored body carries one, and nothing otherwise
C3_ExpiredAtOrAfterDeadline ==
    [][\A kd \in GetKeyData(scenario) :
          IsGet(kd, 0) =>
            \A got \in {lookup(kd)} :
              (got.payload # <<>> /\ clockMs \div 1000 >= held(got).expiresAt)
                  => call'.result = ExpiredResult(held(got).body)]_vars

\* C3 amended: a get with adjustment 0 at a clock nowSeconds > expiresAt (after the
\* deadline) returns only {refresh_token} when the stored body carries one, and
\* nothing otherwise
C3_ExpiredAfterDeadline ==
    [][\A kd \in GetKeyData(scenario) :
          IsGet(kd, 0) =>
            \A got \in {lookup(kd)} :
              (got.payload # <<>> /\ clockMs \div 1000 > held(got).expiresAt)
                  => call'.result = ExpiredResult(held(got).body)]_vars

\* a get returned the remnant of an entry whose deadline the clock has passed
C3_Witness ==
    /\ call.pc = "done"
    /\ call.result # <<>>
    /\ DOMAIN call.result[1] = {"refresh_token"}
    /\ hasKey(storage, toKey(call.cacheKey))
    /\ entryAt(backend, storage, heap, toKey(call.cacheKey)).expiresAt < clockMs \div 1000

----------------------------------------------------------------------------
(* C4 *)

\* C4: when a get finds an expired entry whose body carries a refresh_token, then
\* after the get the key that held the expired entry holds exactly the remnant
\* {refresh_token} with the same expiresAt, for every key the lookup serves
C4_RemnantReplacesExpiredEntry ==
    [][\A kd \in GetKeyData(scenario), adj \in Adjustments :
          IsGet(kd, adj) =>
            \A got \in {lookup(kd)} :
              (/\ got.payload # <<>>
               /\ held(got).expiresAt - adj < clockMs \div 1000
               /\ Truthy(refreshTokenOf(held(got).body)))
              => /\ hasKey(storage', got.existingCacheKey)
                 /\ entryAt(backend, storage', heap', got.existingCacheKey)
                       = [body |-> [refresh_token |-> held(got).body.refresh_token],
                          expiresAt |-> held(got).expiresAt]]_vars

----------------------------------------------------------------------------
(* C5 *)

\* C5: when a get finds an expired entry whose body has no refresh_token, it
\* returns nothing, the key that held the entry is removed, and the backend's get
\* for the same requested key no longer finds it, for every key the lookup serves
C5_ExpiredEntryRemoved ==
    [][\A kd \in GetKeyData(scenario), adj \in Adjustments :
          IsGet(kd, adj) =>
            \A got \in {lookup(kd)} :
              (/\ got.payload # <<>>
               /\ held(got).expiresAt - adj < clockMs \div 1000
               /\ ~Truthy(refreshTokenOf(held(got).body)))
              => /\ call'.result = <<>>
                 /\ ~hasKey(storage', got.existingCacheKey)
                 /\ backendGet(backend, storage', keyTextOf(kd)).existingCacheKey
                       # got.existingCacheKey]_vars

----------------------------------------------------------------------------
(* C6 *)

\* C6 as stated: a get with adjustment 0 before expiresAt returns the full body as
\* set stored it and leaves the store unchanged; a get that finds nothing returns
\* nothing and leaves the store unchanged
C6_FreshGetReturnsWhatSetStored ==
    [][\A kd \in GetKeyData(scenario) :
          IsGet(kd, 0) =>
            \A got \in {lookup(kd)} :
              /\ (got.payload # <<>> /\ clockMs \div 1000 < held(got).expiresAt)
                    => /\ call'.result = <<held(got).body>>
                       /\ \E set \in SetKeyData(scenario) : IsEntryOf(call'.result[1], set)
                       /\ storage' = storage /\ heap' = heap
              /\ got.payload = <<>>
                    => call'.result = <<>> /\ storage' = storage /\ heap' = heap]_vars

\* C6 amended: a get with adjustment 0 before expiresAt returns the body stored
\* under the key it found, as it is stored at the time of the call (the entry set
\* stored, or the {refresh_token} remnant an earlier get with a positive adjustment
\* cut it down to), and leaves the store unchanged; a get that finds nothing
\* returns nothing and leaves the store unchanged
C6_FreshGetReturnsStoredBody ==
    [][\A kd \in GetKeyData(scenario) :
          IsGet(kd, 0) =>
            \A got \in {lookup(kd)} :
              /\ (got.payload # <<>> /\ clockMs \div 1000 < held(got).expiresAt)
                    => /\ call'.result =
                            <<entryAt(backend, storage, heap, got.existingCacheKey).body>>
                       /\ \E set \in SetKeyData(scenario) :
                             \/ IsEntryOf(call'.result[1], set)
                             \/ IsRemnantOf(call'.result[1], set)
                       /\ storage' = storage /\ heap' = heap
              /\ got.payload = <<>>
                    => call'.result = <<>> /\ storage' = storage /\ heap' = heap]_vars

\* a get for a proper subset of the stored scope returned the full entry, which is
\* still before its deadline
C6_Witness ==
    /\ call.pc = "done"
    /\ call.cacheKey.scope = scopeA
    /\ call.result # <<>>
    /\ IsEntryOf(call.result[1], KD(c1, audA, scopeAB))
    /\ hasKey(storage, keyTextOf(KD(c1, audA, scopeAB)))
    /\ clockMs \div 1000
          < entryAt(backend, storage, heap, keyTextOf(KD(c1, audA, scopeAB))).expiresAt

----------------------------------------------------------------------------
(* C7 *)

\* Math.min
Min(a, b) == IF a < b THEN a ELSE b

\* C7: set(entry) stores under the key built from entry.client_id, entry.audience
\* and entry.scope the wrapped value {body: entry, expiresAt} with
\* expiresAt = min(floor(now / 1000) + entry.expires_in, entry.decodedToken.claims.exp),
\* and changes no other key: each other key is stored after the set exactly when
\* it was stored before, with the same wrapped value
C7_SetStoresWrappedEntry ==
    [][\A e \in Entries(scenario) :
          IsSet(e) =>
            \A key \in {keyTextOf(KD(e.client_id, e.audience, e.scope))} :
              /\ hasKey(storage', key)
              /\ entryAt(backend, storage', heap', key)
                    = [body |-> e,
                       expiresAt |-> Min(clockMs \div 1000 + e.expires_in,
                                         e.decodedToken.claims.exp)]
              /\ \A other \in KeysAround \ {key} :
                    /\ hasKey(storage, other) /\ hasKey(storage', other)
                    /\ entryAt(backend, storage', heap', other)
                          = entryAt(backend, storage, heap, other)]_vars

\* an entry set stored is held under its key with expiresAt = claims.exp, next to
\* another key's entry, at a clock reading where now + expires_in exceeds claims.exp
C7_Witness ==
    /\ hasKey(storage, keyTextOf(KD(c1, audA, scopeA)))
    /\ hasKey(storage, keyTextOf(KD(c1, audA, scopeAB)))
    /\ \E w \in {entryAt(backend, storage, heap, keyTextOf(KD(c1, audA, scopeAB)))} :
          /\ IsEntryOf(w.body, KD(c1, audA, scopeAB))
          /\ w.expiresAt = w.body.decodedToken.claims.exp
          /\ w.expiresAt < clockMs \div 1000 + w.body.expires_in

----------------------------------------------------------------------------
(* C8 *)

\* C8: no get, with any adjustment, changes the expiresAt stored under a key: for
\* every key stored before and after the get, expiresAt is the same
C8_ReadsKeepExpiresAt ==
    [][IsSomeGet =>
          \A key \in KeysAround :
              (hasKey(storage, key) /\ hasKey(storage', key)) =>
                  entryAt(backend, storage', heap', key).expiresAt
                      = entryAt(backend, storage, heap, key).expiresAt]_vars

----------------------------------------------------------------------------
(* C9 *)

\* C9: LocalStorageCache.clear() removes every key whose prefix component (the
\* text before the first '::') is keyPrefix, removes no key whose prefix component
\* differs, and leaves the values of the remaining keys unchanged
C9_ClearRemovesExactlyOwnPrefix ==
    [][(backend = "localStorage" /\ call' = call /\ clockMs' = clockMs /\ Clear) =>
          \A i \in 1..Len(storage) :
              IF prefixComponent(storage[i].key) = keyPrefix
              THEN ~hasKey(storage', storage[i].key)
              ELSE /\ hasKey(storage', storage[i].key)
                   /\ valueOf(storage', storage[i].key) = storage[i].value]_vars

----------------------------------------------------------------------------
(* C11: a localStorage that holds a damaged record of this cache *)

InitCorrupt ==
    /\ backend = "localStorage"
    /\ scenario = "corrupt"
    /\ storage \in InitialLocalStorage(scenario)
    /\ heap = <<>>
    /\ clockMs = TickMs \div 2
    /\ call = NoCall
    /\ roundTrip = NoRoundTrip
    /\ request = NoRequest
    /\ inflight = NoFlights
    /\ twin = NoTwin

SpecCorrupt == InitCorrupt /\ [][Next]_vars

\* the text stored under the key the lookup matched is not JSON
MatchedUnparsable(got) ==
    /\ got.existingCacheKey # undefined
    /\ ~JSONparses(valueOf(storage, got.existingCacheKey))

\* C11 as stated: when the text stored under the matched key is unparsable, get
\* fails to its caller (it returns neither absent nor a body) and the store is
\* left exactly as it was
C11_UnparsableFails ==
    [][\A kd \in GetKeyData(scenario), adj \in Adjustments :
          IsGet(kd, adj) =>
            \A got \in {lookup(kd)} :
              MatchedUnparsable(got) => (call'.pc = "failed" /\ storage' = storage)]_vars

\* C11 amended: when the text stored under the matched key is unparsable and not
\* the empty string, get fails to its caller and the store is left exactly as it
\* was; an empty text counts as no entry, and get returns absent
C11_NonEmptyUnparsableFails ==
    [][\A kd \in GetKeyData(scenario), adj \in Adjustments :
          IsGet(kd, adj) =>
            \A got \in {lookup(kd)} :
              MatchedUnparsable(got) =>
                  /\ storage' = storage
                  /\ IF valueOf(storage, got.existingCacheKey).value = <<>>
                     THEN call'.pc = "done" /\ call'.result = <<>>
                     ELSE call'.pc = "failed"]_vars

\* a get for a subset of the damaged record's scope has failed, the record and an
\* entry set stored are both in place
C11_Witness ==
    /\ call.pc = "failed"
    /\ call.cacheKey.scope = scopeA
    /\ Len(storage) = 2
    /\ \E i \in 1..Len(storage) : storage[i].value = unparsableText(<<"{">>)

----------------------------------------------------------------------------
(* C14 *)

\* what get(key, a) returns in the current state for the entry a lookup holds
resultWith(kd, got, a) ==
    managerGetResume(backend, storage, heap, keyTextOf(kd), a, got.payload, clockMs,
                     CHOOSE pos \in insertPositions(backend, storage, keyTextOf(kd)) : TRUE).result

\* C14: get(key, a) treats the entry it finds as expired exactly when
\* expiresAt - a < nowSeconds: then it returns the remnant or absent, and when
\* expiresAt - a >= nowSeconds it returns the stored body and changes nothing;
\* the default adjustment is 0; in one store at one clock reading, a get that
\* returns the stored body with some adjustment returns it with every smaller
\* one (raising the adjustment never turns a remnant or absent into a full body)
C14_StrictAdjustedExpiry ==
    [][\A kd \in GetKeyData(scenario) :
          CalledFor(kd) =>
            \A got \in {lookup(kd)} :
              got.payload # <<>> =>
              \A adj \in Adjustments :
              IsGetWith(kd, got, adj) =>
                /\ DEFAULT_EXPIRY_ADJUSTMENT_SECONDS = 0
                /\ IF held(got).expiresAt - adj < clockMs \div 1000
                   THEN call'.result = ExpiredResult(held(got).body)
                   ELSE /\ call'.result = <<held(got).body>>
                        /\ storage' = storage /\ heap' = heap
                /\ \A lower \in Adjustments :
                      (lower < adj /\ call'.result = <<held(got).body>>)
                          => resultWith(kd, got, lower) = <<held(got).body>>]_vars

\* a get returned the full entry at the clock reading of its deadline: only
\* adjustment 0 leaves it unexpired there
C14_Witness ==
    /\ call.pc = "done"
    /\ call.result # <<>>
    /\ hasKey(storage, toKey(call.cacheKey))
    /\ \E w \in {entryAt(backend, storage, heap, toKey(call.cacheKey))} :
          /\ w.body = call.result[1]
          /\ IsEntryOf(w.body, KD(call.cacheKey.client_id, call.cacheKey.audience,
                                  call.cacheKey.scope))
          /\ w.expiresAt = clockMs \div 1000

----------------------------------------------------------------------------
(* C16 *)

\* C16: a get with adjustment 0 neither removes nor overwrites a stored wrapped
\* entry that is not expired (expiresAt >= nowSeconds): every such entry is stored
\* under its key, unchanged, after the get
C16_GetKeepsUnexpiredEntries ==
    [][\A kd \in GetKeyData(scenario) :
          CalledFor(kd) =>
            \A got \in {lookup(kd)} :
              IsGetWith(kd, got, DEFAULT_EXPIRY_ADJUSTMENT_SECONDS) =>
                \A i \in 1..Len(storage) :
                  entryAt(backend, storage, heap, storage[i].key).expiresAt
                        >= nowSecondsOf(clockMs)
                    => /\ hasKey(storage', storage[i].key)
                       /\ entryAt(backend, storage', heap', storage[i].key)
                            = entryAt(backend, storage, heap, storage[i].key)]_vars

----------------------------------------------------------------------------
(* C19 *)

\* C19: when the store holds one key for a client_id and audience, with the entry
\* as set stored it, a get of the same client_id, audience and scope before
\* expiresAt returns the full body of that entry, the empty scope included
C19_ReadYourWrite ==
    [][\A kd \in SetKeyData(scenario) :
          (/\ CalledFor(kd)
           /\ OnlyEntryFor(kd)
           /\ nowSecondsOf(clockMs)
                 < entryAt(backend, storage, heap, keyTextOf(kd)).expiresAt
           /\ IsGet(kd, DEFAULT_EXPIRY_ADJUSTMENT_SECONDS))
              => call'.result = <<entryAt(backend, storage, heap, keyTextOf(kd)).body>>]_vars

----------------------------------------------------------------------------
(* CacheManager, its gets interleaved with other calls: a get gives way at its
   await of the backend's get (the read itself runs at the call) and goes on, in
   a later turn, with the expiry test and the write-back or removal *)

\* the triples and adjustments of the interleaved gets
AsyncKeyData == {KD(c1, audA, scopeA), KD(c1, audA, scopeAB)}
AsyncAdjustments == {DEFAULT_EXPIRY_ADJUSTMENT_SECONDS, 2}

InitAsync ==
    /\ backend \in {"localStorage", "memory"}
    /\ scenario = "scopes"
    /\ storage = <<>>
    /\ heap = <<>>
    /\ clockMs = TickMs \div 2
    /\ call = NoCall
    /\ roundTrip = NoRoundTrip
    /\ request = NoRequest
    /\ inflight = NoFlights
    /\ twin = NoTwin

\* get(cacheKey, expiryAdjustmentSeconds) is called: key = cacheKey.toKey(), the
\* backend's get reads, and the get awaits; `seen` is the store as it was read
GetCall(g, cacheKey, expiryAdjustmentSeconds) ==
    /\ inflight[g].pc = "idle"
    /\ \A earlier \in 1..(g - 1) : inflight[earlier].pc # "idle"
    /\ \E key \in {toKey(cacheKey)} :
       \E got \in {backendGet(backend, storage, key)} :
          inflight' = [inflight EXCEPT ![g] =
                          IF got.threw
                          THEN [pc |-> "failed", cacheKey |-> cacheKey]
                          ELSE [pc |-> "awaiting", cacheKey |-> cacheKey, key |-> key,
                                expiryAdjustmentSeconds |-> expiryAdjustmentSeconds,
                                payload |-> got.payload,
                                seen |-> [storage |-> storage, heap |-> heap]]]
    /\ UNCHANGED <<backend, scenario, storage, heap, clockMs, call, roundTrip, request,
                   twin>>

\* the return CacheManager.get takes for what the backend's get resolved
branchOf(be, h, expiryAdjustmentSeconds, payload, ms) ==
    IF payload = <<>> THEN "absent"
    ELSE IF isExpired(deref(be, h, payload[1]), expiryAdjustmentSeconds, nowSecondsOf(ms))
         THEN IF Truthy(refreshTokenOf(deref(be, h, payload[1]).body))
              THEN "truncated" ELSE "removed"
         ELSE "fresh"

\* the awaited read has settled: the get runs from nowSeconds to its return, at
\* Date.now() = `at`
GetSettle(g) ==
    /\ inflight[g].pc = "awaiting"
    /\ \E pos \in insertPositions(backend, storage, inflight[g].key) :
       \E out \in {managerGetResume(backend, storage, heap, inflight[g].key,
                       inflight[g].expiryAdjustmentSeconds, inflight[g].payload,
                       clockMs, pos)} :
          /\ storage' = out.storage
          /\ heap' = out.heap
          /\ inflight' = [inflight EXCEPT ![g] =
                            [pc |-> "done", cacheKey |-> inflight[g].cacheKey,
                             key |-> inflight[g].key,
                             expiryAdjustmentSeconds |->
                                 inflight[g].expiryAdjustmentSeconds,
                             payload |-> inflight[g].payload,
                             seen |-> inflight[g].seen,
                             at |-> clockMs,
                             branch |-> branchOf(backend, heap,
                                           inflight[g].expiryAdjustmentSeconds,
                                           inflight[g].payload, clockMs),
                             result |-> out.result]]
    /\ UNCHANGED <<backend, scenario, clockMs, call, roundTrip, request, twin>>

\* A run populates the store, then interleaves its gets with the clock and with
\* the other calls; it goes on until each of its gets has returned. Between a
\* get's read and the next change of the store by a get, one other call at most
\* changes the store.
Populating == \A g \in Gets : inflight[g].pc = "idle"
Undisturbed ==
    \E g \in Gets :
        /\ inflight[g].pc = "awaiting"
        /\ inflight[g].seen = [storage |-> storage, heap |-> heap]

Running == \E g \in Gets : inflight[g].pc \in {"idle", "awaiting"}

NextAsync ==
    \/ Running /\ ~Populating /\ Tick /\ UNCHANGED twin
    \/ /\ Running /\ (Populating \/ Undisturbed)
       /\ \E entry \in Entries(scenario) : Set(entry) /\ UNCHANGED twin
    \/ Running /\ Undisturbed /\ Clear /\ UNCHANGED twin
    \/ \E g \in Gets, kd \in AsyncKeyData, adj \in AsyncAdjustments :
          GetCall(g, CacheKey(kd, undefined), adj)
    \/ \E g \in Gets : GetSettle(g)

SpecAsync == InitAsync /\ [][NextAsync]_vars

\* the stores a get leaves when nothing comes between its read and its settling
\* at Date.now() = ms
leftBySingleGet(flight, ms) ==
    { [storage |-> out.storage, heap |-> out.heap] :
        out \in { managerGetResume(backend, flight.seen.storage, flight.seen.heap,
                      flight.key, flight.expiryAdjustmentSeconds, flight.payload,
                      ms, pos) :
                  pos \in insertPositions(backend, flight.seen.storage, flight.key) } }

\* get `second` settles after get `first` has; both read the same key from the same
\* store, first found its entry expired with a refresh_token and left the store
\* as a single get does
SettlesAfter(first, second) ==
    /\ first # second
    /\ inflight[first].pc = "done"
    /\ inflight[second].pc = "awaiting"
    /\ inflight[first].key = inflight[second].key
    /\ inflight[first].seen = inflight[second].seen
    /\ inflight[first].branch = "truncated"
    /\ [storage |-> storage, heap |-> heap]
          \in leftBySingleGet(inflight[first], inflight[first].at)
    /\ inflight'[second].pc = "done"

\* C15: two gets for one key that both read before either writes back, on an
\* expired entry with a refresh_token, both return { refresh_token }, and the second
\* write-back leaves the store as the first left it, which is as a single get
\* leaves it
C15_DuplicateWriteBackIdempotent ==
    [][\A first, second \in Gets :
          (SettlesAfter(first, second) /\ inflight'[second].branch = "truncated")
              => /\ inflight[first].result
                      = <<remnantOf(deref(backend, inflight[first].seen.heap,
                              inflight[first].payload[1]).body)>>
                 /\ inflight'[second].result = inflight[first].result
                 /\ storage' = storage
                 /\ heap' = heap]_vars

\* both gets have returned from the expired branch after reading the same store,
\* the requested key not being the one the entry was stored under
C15_Witness ==
    /\ \A g \in {1, 2} : inflight[g].pc = "done" /\ inflight[g].branch = "truncated"
    /\ inflight[1].key = inflight[2].key
    /\ inflight[1].seen = inflight[2].seen
    /\ ~hasKey(inflight[1].seen.storage, inflight[1].key)
    /\ [storage |-> storage, heap |-> heap]
          \in leftBySingleGet(inflight[1], inflight[1].at)

\* get g settles in this step
Settles(g) == inflight[g].pc = "awaiting" /\ inflight'[g].pc = "done"

\* the records of the store that were not there when get g read
writtenSince(g) ==
    { i \in 1..Len(storage) :
        \A j \in 1..Len(inflight[g].seen.storage) :
            inflight[g].seen.storage[j] # storage[i] }

\* C17: a get's write-back or removal neither replaces nor deletes a value that
\* was written after the get's read: a record written since is stored under its
\* key, unchanged, when the get has finished
C17_NoLostUpdate ==
    [][\A g \in Gets :
          Settles(g) =>
            \A i \in writtenSince(g) :
                /\ hasKey(storage', storage[i].key)
                /\ entryAt(backend, storage', heap', storage[i].key)
                     = entryAt(backend, storage, heap, storage[i].key)]_vars

\* C18: once clear() has left no key of this cache, a get that settles leaves
\* none either
C18_ClearIsFinal ==
    [][\A g \in Gets :
          (Settles(g) /\ cacheKeysOf(storage) = <<>>)
              => cacheKeysOf(storage') = <<>>]_vars

----------------------------------------------------------------------------
(* Two managers in step: one over InMemoryCache (storage, heap, call), one over
   LocalStorageCache (twin), both from an empty store, given the same calls at the
   same clock readings; a new key comes last in both enumerations *)

\* where the second manager's localStorage puts a key
twinPosition(st, key) == IF hasKey(st, key) THEN 0 ELSE Len(st) + 1

\* CacheManager.set(entry) of the second manager at Date.now() = ms
twinSet(st, entry, ms) ==
    LET key == toKey(CacheKey([client_id |-> entry.client_id, scope |-> entry.scope,
                               audience |-> entry.audience], undefined))
    IN  putKey(st, key, stored("localStorage", 0, wrapCacheEntry(entry, ms)),
               twinPosition(st, key))

\* await CacheManager.get(cacheKey, expiryAdjustmentSeconds) of the second manager
\* at Date.now() = ms: its records and the value returned
twinGet(st, cacheKey, expiryAdjustmentSeconds, ms) ==
    LET key == toKey(cacheKey)
        got == backendGet("localStorage", st, key)
        out == managerGetResume("localStorage", st, <<>>, key, expiryAdjustmentSeconds,
                                got.payload, ms, twinPosition(st, key))
    IN  [storage |-> out.storage, result |-> out.result]

InitTwin ==
    /\ backend = "memory"
    /\ scenario \in Scenarios \ {"shared"}
    /\ storage = <<>>
    /\ heap = <<>>
    /\ clockMs = TickMs \div 2
    /\ call = NoCall
    /\ roundTrip = NoRoundTrip
    /\ request = NoRequest
    /\ inflight = NoFlights
    /\ twin = NoTwin

TickBoth == Tick /\ UNCHANGED twin

SetBoth(entry) ==
    /\ Set(entry)
    /\ twin' = [twin EXCEPT !.storage = twinSet(twin.storage, entry, clockMs)]

ClearBoth ==
    /\ Clear
    /\ twin' = [twin EXCEPT !.storage = localStorageClear(twin.storage)]

GetBoth(cacheKey, expiryAdjustmentSeconds) ==
    /\ Get(cacheKey, expiryAdjustmentSeconds)
    /\ twin' = twinGet(twin.storage, cacheKey, expiryAdjustmentSeconds, clockMs)

NextTwin ==
    \/ TickBoth
    \/ \E entry \in Entries(scenario) : SetBoth(entry)
    \/ ClearBoth
    \/ \E kd \in GetKeyData(scenario), adj \in Adjustments :
          GetBoth(CacheKey(kd, undefined), adj)

SpecTwin == InitTwin /\ [][NextTwin]_vars

\* C20: from an empty store, with the same clock readings and the same enumeration
\* order, every get returns the same over LocalStorageCache as over InMemoryCache
C20_BackendsInterchangeable == call.result = twin.result

----------------------------------------------------------------------------
(* CacheKey on its own: a key is built, serialized with toKey, parsed with fromKey *)

\* the characters component strings are made of
Alphabet == {":", "a"}

\* the strings of at most n characters
RECURSIVE StringsUpTo(_)
StringsUpTo(n) ==
    IF n = 0 THEN {<<>>}
    ELSE LET shorter == StringsUpTo(n - 1)
         IN  shorter \cup {Append(str, ch) : str \in shorter, ch \in Alphabet}

Components == StringsUpTo(MaxLen)

InitKey ==
    /\ backend = "memory"
    /\ scenario = "emptyScope"
    /\ storage = <<>>
    /\ heap = <<>>
    /\ clockMs = 0
    /\ call = NoCall
    /\ \E prefix \in Components, client_id \in Components,
          audience \in Components, scope \in Components :
          roundTrip = [phase |-> "built",
                       cacheKey |-> CacheKey(KD(client_id, audience, scope), prefix),
                       key |-> <<>>, parsed |-> NoRoundTrip.parsed]
    /\ request = NoRequest
    /\ inflight = NoFlights
    /\ twin = NoTwin

\* key = cacheKey.toKey()
Serialize ==
    /\ roundTrip.phase = "built"
    /\ roundTrip' = [roundTrip EXCEPT !.phase = "serialized",
                                      !.key = toKey(roundTrip.cacheKey)]
    /\ UNCHANGED <<backend, scenario, storage, heap, clockMs, call, request, inflight,
                   twin>>

\* CacheKey.fromKey(key)
Parse ==
    /\ roundTrip.phase = "serialized"
    /\ roundTrip' = [roundTrip EXCEPT !.phase = "parsed",
                                      !.parsed = fromKey(roundTrip.key)]
    /\ UNCHANGED <<backend, scenario, storage, heap, clockMs, call, request, inflight,
                   twin>>

NextKey == Serialize \/ Parse

SpecKey == InitKey /\ [][NextKey]_vars

\* C10 as stated: for every CacheKey built from any four strings, with
\* k = toKey(), fromKey(k).toKey() = k and fromKey(k) has the same four components
C10_RoundTripAnyStrings ==
    roundTrip.phase = "parsed" =>
        /\ toKey(roundTrip.parsed) = roundTrip.key
        /\ roundTrip.parsed = roundTrip.cacheKey

\* C10 amended: for every CacheKey whose components do not contain '::' and whose
\* prefix, client_id and audience do not end with ':' (empty strings included),
\* with k = toKey(), fromKey(k).toKey() = k and fromKey(k) has the same four
\* components
C10_RoundTripSeparable ==
    (roundTrip.phase = "parsed" /\ Separable(roundTrip.cacheKey)) =>
        /\ toKey(roundTrip.parsed) = roundTrip.key
        /\ roundTrip.parsed = roundTrip.cacheKey

\* a key with an empty component and a component holding a single ':' went
\* through toKey and fromKey
C10_Witness ==
    /\ roundTrip.phase = "parsed"
    /\ Separable(roundTrip.cacheKey)
    /\ roundTrip.cacheKey.client_id = <<>>
    /\ roundTrip.cacheKey.scope = <<"a", ":">>
    /\ roundTrip.cacheKey.audience = <<":", "a">>

----------------------------------------------------------------------------
(* Strings of the token exchange: character codes, JSON, URL and base64 text *)

\* the printable ASCII characters in code order, from 32 (space) to 126 (~); the
\* grave accent, code 96, stands by its name
Printable ==
  <<
    " ", "!", "\"", "#", "$", "%", "&", "'", "(", ")", "*", "+", ",", "-",
    ".", "/", "0", "1", "2", "3", "4", "5", "6", "7", "8", "9", ":", ";",
    "<", "=", ">", "?", "@", "A", "B", "C", "D", "E", "F", "G", "H", "I",
    "J", "K", "L", "M", "N", "O", "P", "Q", "R", "S", "T", "U", "V", "W",
    "X", "Y", "Z", "[", "\\", "]", "^", "_", "grave", "a", "b", "c", "d", "e",
    "f", "g", "h", "i", "j", "k", "l", "m", "n", "o", "p", "q", "r", "s",
    "t", "u", "v", "w", "x", "y", "z", "{", "|", "}", "~"
  >>

\* the code unit of a character, and the character of a code unit
charCode(ch) == 31 + CHOOSE i \in 1..Len(Printable) : Printable[i] = ch
charOf(code) == Printable[code - 31]

\* the sequences of a sequence of sequences, one after the other
RECURSIVE Concat(_)
Concat(seqs) == IF seqs = <<>> THEN <<>> ELSE Head(seqs) \o Concat(Tail(seqs))

\* Array.prototype.join
RECURSIVE join(_, _)
join(parts, d) ==
    IF parts = <<>> THEN <<>>
    ELSE IF Len(parts) = 1 THEN parts[1]
    ELSE parts[1] \o d \o join(Tail(parts), d)

\* the properties of an object, a sequence of <<key, value>> in insertion order,
\* whose value is not undefined
definedProperties(obj) == SelectSeq(obj, LAMBDA kv : kv[2] # undefined)

\* a JSON string literal: quotation mark and reverse solidus are escaped
quoteJSON(str) ==
    <<"\"">> \o Concat([i \in 1..Len(str) |->
                          IF str[i] = "\"" \/ str[i] = "\\" THEN <<"\\", str[i]>>
                          ELSE <<str[i]>>])
             \o <<"\"">>

\* JSON.stringify of an object whose values are strings or undefined
stringifyObject(obj) ==
    LET members == definedProperties(obj)
    IN  <<"{">> \o join([i \in 1..Len(members) |->
                            quoteJSON(members[i][1]) \o <<":">> \o quoteJSON(members[i][2])],
                        <<",">>)
              \o <<"}">>

\* the digits of a percent escape
HexDigits ==
    <<"0", "1", "2", "3", "4", "5", "6", "7", "8", "9", "A", "B", "C", "D", "E", "F">>

\* the characters encodeURIComponent leaves as they are
Unreserved ==
  {
    "A", "B", "C", "D", "E", "F", "G", "H", "I", "J", "K", "L", "M", "N",
    "O", "P", "Q", "R", "S", "T", "U", "V", "W", "X", "Y", "Z", "a", "b",
    "c", "d", "e", "f", "g", "h", "i", "j", "k", "l", "m", "n", "o", "p",
    "q", "r", "s", "t", "u", "v", "w", "x", "y", "z", "0", "1", "2", "3",
    "4", "5", "6", "7", "8", "9", "-", "_", ".", "!", "~", "*", "'", "(", ")"
  }

encodeURIComponent(str) ==
    Concat([i \in 1..Len(str) |->
              IF str[i] \in Unreserved THEN <<str[i]>>
              ELSE <<"%", HexDigits[(charCode(str[i]) \div 16) + 1],
                          HexDigits[(charCode(str[i]) % 16) + 1]>>])

\* createQueryParams(params): key=value pairs of the defined properties, URI
\* encoded and joined with '&'
createQueryParams(params) ==
    LET kept == definedProperties(params)
    IN  join([i \in 1..Len(kept) |->
                encodeURIComponent(kept[i][1]) \o <<"=">> \o encodeURIComponent(kept[i][2])],
             <<"&">>)

\* the base64 alphabet
Base64Alphabet ==
  <<
    "A", "B", "C", "D", "E", "F", "G", "H", "I", "J", "K", "L", "M", "N",
    "O", "P", "Q", "R", "S", "T", "U", "V", "W", "X", "Y", "Z", "a", "b",
    "c", "d", "e", "f", "g", "h", "i", "j", "k", "l", "m", "n", "o", "p",
    "q", "r", "s", "t", "u", "v", "w", "x", "y", "z", "0", "1", "2", "3",
    "4", "5", "6", "7", "8", "9", "+", "/"
  >>

\* the base64 text of the bytes from index i on
RECURSIVE btoaFrom(_, _)
btoaFrom(bytes, i) ==
    LET left == Len(bytes) - i + 1
        b1 == bytes[i]
        b2 == IF left >= 2 THEN bytes[i + 1] ELSE 0
        b3 == IF left >= 3 THEN bytes[i + 2] ELSE 0
        n  == b1 * 65536 + b2 * 256 + b3
        s1 == Base64Alphabet[(n \div 262144) + 1]
        s2 == Base64Alphabet[((n \div 4096) % 64) + 1]
        s3 == Base64Alphabet[((n \div 64) % 64) + 1]
        s4 == Base64Alphabet[(n % 64) + 1]
    IN  IF left <= 0 THEN <<>>
        ELSE IF left = 1 THEN <<s1, s2, "=", "=">>
        ELSE IF left = 2 THEN <<s1, s2, s3, "=">>
        ELSE <<s1, s2, s3, s4>> \o btoaFrom(bytes, i + 3)

\* btoa(str) for a string of printable ASCII characters
btoa(str) == btoaFrom([i \in 1..Len(str) |-> charCode(str[i])], 1)

----------------------------------------------------------------------------
(* oauthToken: the request of the token exchange *)

\* most grant parameters one call carries
MaxParams == 2

DEFAULT_TOKEN_PATH == <<"o", "a", "u", "t", "h", "/", "t", "o", "k", "e", "n">>

\* the client metadata sent when the caller supplies none
DEFAULT_AUTH0_CLIENT ==
    <<<<<<"n", "a", "m", "e">>, <<"a", "u", "t", "h", "0", "-", "s", "p", "a", "-", "j", "s">>>>,
      <<<<"v", "e", "r", "s", "i", "o", "n">>, <<"1", ".", "0">>>>>>

ContentTypeForm ==
    <<"a", "p", "p", "l", "i", "c", "a", "t", "i", "o", "n", "/", "x", "-", "w", "w", "w",
      "-", "f", "o", "r", "m", "-", "u", "r", "l", "e", "n", "c", "o", "d", "e", "d">>

ContentTypeJSON ==
    <<"a", "p", "p", "l", "i", "c", "a", "t", "i", "o", "n", "/", "j", "s", "o", "n">>

\* an option that is a flag: true, false, or left out
Flags == {"true", "false", "undefined"}

\* `flag ? ... : ...` and `!flag`
truthyFlag(flag) == flag = "true"

\* the names of the grant parameters, in the order the caller writes them
ParamNames ==
    <<<<"g", "r", "a", "n", "t", "_", "t", "y", "p", "e">>,
      <<"c", "o", "d", "e">>,
      <<"s", "c", "o", "p", "e", "_", "h", "i", "n", "t">>>>

\* the values a grant parameter takes: plain text, text with the characters the
\* encodings escape, or undefined
ParamValues ==
    {<<"a">>, <<"a", "&", "b", "=", "%">>, <<"\"", " ", "\\">>, undefined}

\* the objects of the first n grant parameters or fewer
RECURSIVE ParamObjects(_)
ParamObjects(n) ==
    IF n = 0 THEN {<<>>}
    ELSE LET fewer == ParamObjects(n - 1)
         IN  fewer \cup {Append(obj, <<ParamNames[n], v>>) :
                            obj \in {o \in fewer : Len(o) = n - 1}, v \in ParamValues}

\* a caller's own client metadata
customAuth0Client ==
    <<<<<<"n", "a", "m", "e">>, <<"m", "y", "-", "s", "d", "k">>>>,
      <<<<"v", "e", "r", "s", "i", "o", "n">>, <<"2">>>>,
      <<<<"e", "n", "v">>, undefined>>>>

\* the TokenEndpointOptions of a call; `auth0Client` is <<>> when left out and
\* <<object>> otherwise, `rest` the grant parameters (...options)
TokenEndpointOptions ==
    [baseUrl            : {<<"h", "t", "t", "p", "s", ":", "/", "/", "t">>},
     timeout            : {10},
     audience           : {undefined, <<>>, <<"A">>},
     scope              : {<<"a">>},
     auth0Client        : {<<>>, <<customAuth0Client>>},
     useFormData        : Flags,
     disableAuth0Client : Flags,
     tokenPath          : {undefined, <<"t">>},
     rest               : ParamObjects(MaxParams)]

\* a body that is JSON whatever useFormData says
requestBodyAlwaysJSON(useFormData, options) == stringifyObject(options)

\* const body = useFormData ? createQueryParams(options) : JSON.stringify(options)
requestBody(useFormData, options) ==
    IF truthyFlag(useFormData) THEN createQueryParams(options)
    ELSE stringifyObject(options)

\* headers that carry Auth0-Client whatever disableAuth0Client says
requestHeadersAlwaysClient(useFormData, disableAuth0Client, auth0Client) ==
    ("Content-Type" :> (IF truthyFlag(useFormData) THEN ContentTypeForm
                        ELSE ContentTypeJSON))
        @@ ("Auth0-Client" :> btoa(stringifyObject(IF auth0Client # <<>>
                                                    THEN auth0Client[1]
                                                    ELSE DEFAULT_AUTH0_CLIENT)))

\* const headers = {'Content-Type': ...}; if (!disableAuth0Client) headers['Auth0-Client'] = ...
requestHeaders(useFormData, disableAuth0Client, auth0Client) ==
    LET contentType ==
            "Content-Type" :> (IF truthyFlag(useFormData) THEN ContentTypeForm
                               ELSE ContentTypeJSON)
    IN  IF ~truthyFlag(disableAuth0Client)
        THEN contentType @@
             ("Auth0-Client" :> btoa(stringifyObject(IF auth0Client # <<>>
                                                      THEN auth0Client[1]
                                                      ELSE DEFAULT_AUTH0_CLIENT)))
        ELSE contentType

\* oauthToken(options): the arguments it hands to getJSON
oauthToken(options) ==
    LET tokenPath == IF options.tokenPath = undefined THEN DEFAULT_TOKEN_PATH
                     ELSE options.tokenPath
    IN  [url          |-> options.baseUrl \o <<"/">> \o tokenPath,
         timeout      |-> options.timeout,
         audience     |-> IF Truthy(options.audience) THEN options.audience
                          ELSE <<"d", "e", "f", "a", "u", "l", "t">>,
         scope        |-> options.scope,
         fetchOptions |-> [method  |-> "POST",
                           body    |-> requestBody(options.useFormData, options.rest),
                           headers |-> requestHeaders(options.useFormData,
                                                      options.disableAuth0Client,
                                                      options.auth0Client)],
         useFormData  |-> options.useFormData]

InitToken ==
    /\ backend = "memory"
    /\ scenario = "emptyScope"
    /\ storage = <<>>
    /\ heap = <<>>
    /\ clockMs = 0
    /\ call = NoCall
    /\ roundTrip = NoRoundTrip
    /\ \E options \in TokenEndpointOptions :
          request = [phase |-> "called", options |-> options]
    /\ inflight = NoFlights
    /\ twin = NoTwin

\* await oauthToken(options) up to its call of getJSON
BuildRequest ==
    /\ request.phase = "called"
    /\ request' = [phase |-> "built", options |-> request.options,
                   built |-> oauthToken(request.options)]
    /\ UNCHANGED <<backend, scenario, storage, heap, clockMs, call, roundTrip, inflight,
                   twin>>

NextToken == BuildRequest

SpecToken == InitToken /\ [][NextToken]_vars

----------------------------------------------------------------------------
(* What a receiver reads out of the request *)

\* the value of a hexadecimal digit, 16 for any other character
hexValue(ch) ==
    IF \E i \in 1..16 : HexDigits[i] = ch
    THEN (CHOOSE i \in 1..16 : HexDigits[i] = ch) - 1
    ELSE 16

\* whether every '%' of the text starts a percent escape of a printable character
wellEscaped(text) ==
    \A i \in 1..Len(text) :
        text[i] = "%" =>
            /\ i + 2 <= Len(text)
            /\ hexValue(text[i + 1]) < 16 /\ hexValue(text[i + 2]) < 16
            /\ hexValue(text[i + 1]) * 16 + hexValue(text[i + 2]) \in 32..126

\* decodeURIComponent of a well-escaped text, from index i on
RECURSIVE decodeFrom(_, _)
decodeFrom(text, i) ==
    IF i > Len(text) THEN <<>>
    ELSE IF text[i] = "%"
    THEN <<charOf(hexValue(text[i + 1]) * 16 + hexValue(text[i + 2]))>>
            \o decodeFrom(text, i + 3)
    ELSE <<text[i]>> \o decodeFrom(text, i + 1)

\* the parameters a form decoder reads: ok = the text is key=value pairs joined
\* with '&'
parseForm(text) ==
    IF text = <<>> THEN [ok |-> TRUE, value |-> <<>>]
    ELSE LET parts == split(text, <<"&">>)
             pairs == [i \in 1..Len(parts) |-> split(parts[i], <<"=">>)]
         IN  IF \A i \in 1..Len(pairs) :
                    /\ Len(pairs[i]) = 2
                    /\ wellEscaped(pairs[i][1]) /\ wellEscaped(pairs[i][2])
             THEN [ok |-> TRUE,
                   value |-> [i \in 1..Len(pairs) |->
                                <<decodeFrom(pairs[i][1], 1), decodeFrom(pairs[i][2], 1)>>]]
             ELSE [ok |-> FALSE, value |-> <<>>]

\* a JSON string literal read from its opening quotation mark at index i:
\* ok, the string, and the index after the closing quotation mark
RECURSIVE readChars(_, _, _)
readChars(text, i, acc) ==
    IF i > Len(text) THEN [ok |-> FALSE, str |-> acc, next |-> i]
    ELSE IF text[i] = "\"" THEN [ok |-> TRUE, str |-> acc, next |-> i + 1]
    ELSE IF text[i] = "\\"
    THEN IF i + 1 > Len(text) THEN [ok |-> FALSE, str |-> acc, next |-> i]
         ELSE readChars(text, i + 2, Append(acc, text[i + 1]))
    ELSE readChars(text, i + 1, Append(acc, text[i]))

readString(text, i) ==
    IF i <= Len(text) /\ text[i] = "\"" THEN readChars(text, i + 1, <<>>)
    ELSE [ok |-> FALSE, str |-> <<>>, next |-> i]

\* the members "key":"value" of a JSON object from index i on, up to its '}'
RECURSIVE readMembers(_, _, _)
readMembers(text, i, acc) ==
    LET key == readString(text, i)
        val == readString(text, key.next + 1)
    IN  IF ~key.ok \/ key.next > Len(text) \/ text[key.next] # ":" \/ ~val.ok
             \/ val.next > Len(text)
        THEN [ok |-> FALSE, value |-> <<>>]
        ELSE IF text[val.next] = "," 
        THEN readMembers(text, val.next + 1, Append(acc, <<key.str, val.str>>))
        ELSE IF text[val.next] = "}" /\ val.next = Len(text)
        THEN [ok |-> TRUE, value |-> Append(acc, <<key.str, val.str>>)]
        ELSE [ok |-> FALSE, value |-> <<>>]

\* the properties a JSON parser reads: ok = the text is an object of strings
parseObject(text) ==
    IF text = <<"{", "}">> THEN [ok |-> TRUE, value |-> <<>>]
    ELSE IF Len(text) >= 2 /\ text[1] = "{" THEN readMembers(text, 2, <<>>)
    ELSE [ok |-> FALSE, value |-> <<>>]

\* the sextet of a base64 character, 64 for any other character
sextet(ch) ==
    IF \E i \in 1..64 : Base64Alphabet[i] = ch
    THEN (CHOOSE i \in 1..64 : Base64Alphabet[i] = ch) - 1
    ELSE 64

\* atob of a padded base64 text of printable characters, from index i on
RECURSIVE atobFrom(_, _)
atobFrom(text, i) ==
    IF i + 3 > Len(text) THEN <<>>
    ELSE LET s3 == IF text[i + 2] = "=" THEN 0 ELSE sextet(text[i + 2])
             s4 == IF text[i + 3] = "=" THEN 0 ELSE sextet(text[i + 3])
             n  == sextet(text[i]) * 262144 + sextet(text[i + 1]) * 4096 + s3 * 64 + s4
             b1 == charOf(n \div 65536)
             b2 == charOf((n \div 256) % 256)
             b3 == charOf(n % 256)
         IN  IF text[i + 2] = "=" THEN <<b1>>
             ELSE IF text[i + 3] = "=" THEN <<b1, b2>>
             ELSE <<b1, b2, b3>> \o atobFrom(text, i + 4)

atob(text) == atobFrom(text, 1)

\* the request the last call built, and the options it was given
built == request.built
given == request.options

----------------------------------------------------------------------------
(* C12 *)

\* C12: oauthToken describes a POST to baseUrl + '/' + tokenPath (the default path
\* when none is given); with useFormData set the Content-Type is
\* application/x-www-form-urlencoded and a form decoder reads the defined grant
\* parameters out of the body; otherwise the Content-Type is application/json and
\* a JSON parser reads them out of the body
C12_ContentTypeMatchesBody ==
    request.phase = "built" =>
        /\ built.fetchOptions.method = "POST"
        /\ built.url = given.baseUrl \o <<"/">>
                          \o (IF given.tokenPath = undefined THEN DEFAULT_TOKEN_PATH
                              ELSE given.tokenPath)
        /\ IF given.useFormData = "true"
           THEN /\ built.fetchOptions.headers["Content-Type"] = ContentTypeForm
                /\ parseForm(built.fetchOptions.body)
                      = [ok |-> TRUE, value |-> definedProperties(given.rest)]
           ELSE /\ built.fetchOptions.headers["Content-Type"] = ContentTypeJSON
                /\ parseObject(built.fetchOptions.body)
                      = [ok |-> TRUE, value |-> definedProperties(given.rest)]

\* a form request was built for two grant parameters whose values hold the
\* characters '&', '=', '%' and a quotation mark
C12_Witness ==
    /\ request.phase = "built"
    /\ given.useFormData = "true"
    /\ Len(given.rest) = 2
    /\ given.rest[1][2] = <<"a", "&", "b", "=", "%">>
    /\ given.rest[2][2] = <<"\"", " ", "\\">>
    /\ built.fetchOptions.headers["Content-Type"] = ContentTypeForm

----------------------------------------------------------------------------
(* C13 *)

\* the client metadata the header stands for
metadataOf(options) ==
    IF options.auth0Client # <<>> THEN options.auth0Client[1] ELSE DEFAULT_AUTH0_CLIENT

\* a request without its Auth0-Client header
withoutClientHeader(req) ==
    [req EXCEPT !.fetchOptions.headers =
        [h \in DOMAIN req.fetchOptions.headers \ {"Auth0-Client"} |->
            req.fetchOptions.headers[h]]]

\* C13: the request carries the Auth0-Client header exactly when
\* disableAuth0Client is not set; the header is the base64 text of the JSON of the
\* supplied client metadata, or of the default metadata when none is supplied;
\* with disableAuth0Client set the request is, but for the header, the request
\* built for the same options with disableAuth0Client left out
C13_ClientHeaderUnlessDisabled ==
    request.phase = "built" =>
        /\ ("Auth0-Client" \in DOMAIN built.fetchOptions.headers)
              <=> (given.disableAuth0Client # "true")
        /\ "Auth0-Client" \in DOMAIN built.fetchOptions.headers =>
              parseObject(atob(built.fetchOptions.headers["Auth0-Client"]))
                  = [ok |-> TRUE, value |-> definedProperties(metadataOf(given))]
        /\ given.disableAuth0Client = "true" =>
              /\ DOMAIN built.fetchOptions.headers = {"Content-Type"}
              /\ built = withoutClientHeader(
                            oauthToken([given EXCEPT !.disableAuth0Client = "undefined"]))

\* a request was built with the header disabled for a caller that supplied its
\* own client metadata
C13_Witness ==
    /\ request.phase = "built"
    /\ given.disableAuth0Client = "true"
    /\ given.auth0Client # <<>>
    /\ "Auth0-Client" \notin DOMAIN built.fetchOptions.headers

\* a request was built that carries the default client metadata
C13_WitnessDefault ==
    /\ request.phase = "built"
    /\ given.disableAuth0Client = "false"
    /\ given.auth0Client = <<>>
    /\ "Auth0-Client" \in DOMAIN built.fetchOptions.headers

====
